---- MODULE Spec2Model ----
(***************************************************************************)
(* ToxStatus (main.go): the periodic scan of the Tox bootstrap nodes.      *)
(*                                                                         *)
(* probeLoop loads the node directory, starts one probeNode goroutine per  *)
(* record, joins them on an unbuffered channel and publishes the list and  *)
(* the scan timestamp in the package variables nodesList and lastScan.     *)
(* The HTTP handlers read those two variables without synchronisation.     *)
(*                                                                         *)
(* Go strings and byte slices are sequences: a string is a sequence of     *)
(* one-character strings, a byte slice a sequence of numbers 0..255.       *)
(***************************************************************************)
EXTENDS Integers, Sequences, FiniteSets, TLC

(***************************************************************************)
(* Constants of main.go                                                    *)
(***************************************************************************)
bootstrapInfoPacketID == 240
tcpHandshakeResponsePacketLength == 96
tcpPorts == <<443, 3389, 33445>>

(***************************************************************************)
(* Strings                                                                 *)
(***************************************************************************)
Digits == <<"0", "1", "2", "3", "4", "5", "6", "7", "8", "9">>

IsDigit(c) == \E i \in 1..10 : Digits[i] = c

DigitVal(c) == (CHOOSE i \in 1..10 : Digits[i] = c) - 1

IsSpace(c) == c = " "

\* strings.HasPrefix(s, "|")
HasPrefixBar(s) == Len(s) >= 1 /\ s[1] = "|"

\* stripSpaces: drops the white space of the line
RECURSIVE stripSpaces(_)
stripSpaces(s) ==
    IF s = <<>> THEN <<>>
    ELSE IF IsSpace(Head(s)) THEN stripSpaces(Tail(s))
         ELSE <<Head(s)>> \o stripSpaces(Tail(s))

\* strings.TrimSpace
RECURSIVE TrimLeftSpace(_)
TrimLeftSpace(s) ==
    IF s # <<>> /\ IsSpace(Head(s)) THEN TrimLeftSpace(Tail(s)) ELSE s

RECURSIVE TrimRightSpace(_)
TrimRightSpace(s) ==
    IF s # <<>> /\ IsSpace(s[Len(s)])
    THEN TrimRightSpace(SubSeq(s, 1, Len(s) - 1)) ELSE s

TrimSpace(s) == TrimRightSpace(TrimLeftSpace(s))

\* strings.Split(s, "|"): the fields between the separators, at least one
RECURSIVE SplitBar(_)
SplitBar(s) ==
    IF \A i \in 1..Len(s) : s[i] # "|" THEN <<s>>
    ELSE LET k == CHOOSE i \in 1..Len(s) :
                      s[i] = "|" /\ \A j \in 1..(i - 1) : s[j] # "|"
         IN  <<SubSeq(s, 1, k - 1)>> \o SplitBar(SubSeq(s, k + 1, Len(s)))

\* the value of a string of decimal digits
RECURSIVE DecimalValue(_)
DecimalValue(s) ==
    IF s = <<>> THEN 0
    ELSE 10 * DecimalValue(SubSeq(s, 1, Len(s) - 1)) + DigitVal(s[Len(s)])

\* strconv.Atoi: an optional sign, then one or more decimal digits
AtoiOk(s) ==
    LET body == IF s # <<>> /\ s[1] \in {"+", "-"} THEN Tail(s) ELSE s
    IN  body # <<>> /\ \A i \in 1..Len(body) : IsDigit(body[i])

Atoi(s) ==
    IF s[1] = "-" THEN 0 - DecimalValue(Tail(s))
    ELSE IF s[1] = "+" THEN DecimalValue(Tail(s))
    ELSE DecimalValue(s)

\* A uint32 is kept as its two 16-bit halves, value hi * 65536 + lo, so that
\* every intermediate result fits the checker's integers.
\* fmt.Sprintf("%d", v) for a uint32: the decimal digits, by division by ten
RECURSIVE FormatUint32(_)
FormatUint32(v) ==
    LET t == (v.hi % 10) * 65536 + v.lo
    IN  IF v.hi = 0 /\ v.lo < 10 THEN <<Digits[v.lo + 1]>>
        ELSE FormatUint32([hi |-> v.hi \div 10, lo |-> t \div 10])
             \o <<Digits[(t % 10) + 1]>>

(***************************************************************************)
(* parseNode                                                               *)
(***************************************************************************)
Never == <<"N", "e", "v", "e", "r">>
NONE == <<"N", "O", "N", "E">>

\* the toxNode literal of parseNode, with the IPv6 normalisation
NewNode(lineParts, port) ==
    [Ipv4Address    |-> TrimSpace(lineParts[2]),
     Ipv6Address    |-> IF TrimSpace(lineParts[3]) = NONE THEN <<"-">>
                        ELSE TrimSpace(lineParts[3]),
     Port           |-> port,
     TCPPorts       |-> <<>>,
     PublicKey      |-> TrimSpace(lineParts[5]),
     Maintainer     |-> TrimSpace(lineParts[6]),
     Location       |-> TrimSpace(lineParts[7]),
     Status         |-> FALSE,
     Version        |-> <<>>,
     MOTD           |-> <<>>,
     LastPing       |-> 0,
     LastPingString |-> Never]

\* the condition of the if statement that guards the literal
LineAccepted(lineParts) ==
    AtoiOk(TrimSpace(lineParts[4])) /\ Len(lineParts) = 8

\* parseNode: kind "nil" (line skipped), "node", or "panic" when lineParts[3]
\* is indexed in a slice of fewer than four fields
parseNode(nodeString) ==
    LET s == stripSpaces(nodeString)
    IN  IF ~HasPrefixBar(s) THEN [kind |-> "nil"]
        ELSE LET lineParts == SplitBar(s)
             IN  IF Len(lineParts) < 4 THEN [kind |-> "panic"]
                 ELSE IF LineAccepted(lineParts)
                      THEN [kind |-> "node",
                            node |-> NewNode(lineParts,
                                             Atoi(TrimSpace(lineParts[4])))]
                      ELSE [kind |-> "nil"]

(***************************************************************************)
(* getBootstrapInfo: the decoding of the reply                             *)
(***************************************************************************)
\* binary.BigEndian.Uint32
BigEndianUint32(b) ==
    [hi |-> b[1] * 256 + b[2], lo |-> b[3] * 256 + b[4]]

\* bytes.Trim(b, "\x00"): the zero bytes cut off both ends
RECURSIVE TrimLeftZero(_)
TrimLeftZero(b) ==
    IF b # <<>> /\ Head(b) = 0 THEN TrimLeftZero(Tail(b)) ELSE b

RECURSIVE TrimRightZero(_)
TrimRightZero(b) ==
    IF b # <<>> /\ b[Len(b)] = 0
    THEN TrimRightZero(SubSeq(b, 1, Len(b) - 1)) ELSE b

\* bytes.TrimRight in the place of bytes.Trim
BytesTrimRightOnly(b) == TrimRightZero(b)

BytesTrimZero(b) == TrimRightZero(TrimLeftZero(b))

\* what getBootstrapInfo does with the result of conn.Read: reply.err says
\* that Read returned an error, reply.data are the bytes read (buffer[:read];
\* the rest of the 261-byte buffer is zero).  The result is the error flag
\* and the node with Version and MOTD stored.
getBootstrapInfo(node, reply) ==
    LET buffer == reply.data
        first  == IF Len(buffer) >= 1 THEN buffer[1] ELSE 0
    IN  IF reply.err THEN [err |-> TRUE, node |-> node]
        ELSE IF first # bootstrapInfoPacketID THEN [err |-> TRUE, node |-> node]
        ELSE IF Len(buffer) < 1 + 4 THEN [err |-> TRUE, node |-> node]
        ELSE [err  |-> FALSE,
              node |-> [node EXCEPT
                          !.Version = FormatUint32(
                                          BigEndianUint32(SubSeq(buffer, 2, 5))),
                          !.MOTD = BytesTrimZero(
                                          SubSeq(buffer, 6, Len(buffer)))]]

(***************************************************************************)
(* getNodes, tryTCPHandshake, the candidate ports                          *)
(***************************************************************************)
HexChars == {"0", "1", "2", "3", "4", "5", "6", "7", "8", "9",
             "a", "b", "c", "d", "e", "f", "A", "B", "C", "D", "E", "F"}

\* hex.DecodeString returns no error
HexDecodeOk(s) == Len(s) % 2 = 0 /\ \A i \in 1..Len(s) : s[i] \in HexChars

\* getNodes returns an error: the key does not decode, or conn.Read fails
\* (any reply read without error is accepted)
getNodes(node, readErr) == ~HexDecodeOk(node.PublicKey) \/ readErr

\* contains(tcpPorts, port)
contains(s, v) == \E i \in 1..Len(s) : s[i] = v

\* CandidatePorts without the contains test
CandidatePortsAlways(node) == Append(tcpPorts, node.Port)

\* ports := tcpPorts; append(ports, node.Port) unless it is a well-known port
\* (the literal tcpPorts has no spare capacity: append copies)
CandidatePorts(node) ==
    IF ~contains(tcpPorts, node.Port) THEN Append(tcpPorts, node.Port)
    ELSE tcpPorts

\* conn.Read returned no error and exactly 96 bytes
HandshakeOk(read) == read.err = FALSE /\ read.n = tcpHandshakeResponsePacketLength

(***************************************************************************)
(* parseNodes: the loop over the lines, with the merge of the ping history *)
(***************************************************************************)
\* getOldNode over the published list: the first node with the key, or 0
getOldNode(list, objs, publicKey) ==
    IF \E i \in 1..Len(list) : objs[list[i]].PublicKey = publicKey
    THEN list[CHOOSE i \in 1..Len(list) :
                 /\ objs[list[i]].PublicKey = publicKey
                 /\ \A j \in 1..(i - 1) : objs[list[j]].PublicKey # publicKey]
    ELSE 0

\* MergeOld without the transfer
MergeOldNothing(node, list, objs) == node

\* MergeOld transferring the status with the ping info
MergeOldStatus(node, list, objs) ==
    LET oldNode == getOldNode(list, objs, node.PublicKey)
    IN  IF oldNode # 0
        THEN [node EXCEPT !.LastPing = objs[oldNode].LastPing,
                          !.LastPingString = objs[oldNode].LastPingString,
                          !.Status = objs[oldNode].Status]
        ELSE node

\* "transfer last ping info"
MergeOld(node, list, objs) ==
    LET oldNode == getOldNode(list, objs, node.PublicKey)
    IN  IF oldNode # 0
        THEN [node EXCEPT !.LastPing = objs[oldNode].LastPing,
                          !.LastPingString = objs[oldNode].LastPingString]
        ELSE node

\* the records of the lines, in order; kind "panic" when parseNode panics
RECURSIVE parseLines(_, _, _)
parseLines(lines, list, objs) ==
    IF lines = <<>> THEN [kind |-> "ok", nodes |-> <<>>]
    ELSE LET r == parseNode(Head(lines))
         IN  IF r.kind = "panic" THEN [kind |-> "panic", nodes |-> <<>>]
             ELSE LET rest == parseLines(Tail(lines), list, objs)
                  IN  IF rest.kind = "panic" THEN rest
                      ELSE IF r.kind = "nil" THEN rest
                      ELSE [kind  |-> "ok",
                            nodes |-> <<MergeOld(r.node, list, objs)>>
                                      \o rest.nodes]

(***************************************************************************)
(* Bounds and the environment                                              *)
(***************************************************************************)
\* the clock stops at MaxTime: it bounds the number of scan cycles
MaxTime == 3

\* the longest reply getBootstrapInfo is applied to on its own
MaxReplyLen == 7

\* the most lines and the most fields of a line parseNodes is applied to on
\* its own
MaxLines == 2
MaxFields == 8

\* one line of the directory from its fields: "|f1|f2|...|fn|"
RECURSIVE Line(_)
Line(fields) ==
    IF fields = <<>> THEN <<"|">>
    ELSE <<"|">> \o Head(fields) \o Line(Tail(fields))

KeyAB == <<"A", "B">>
KeyCD == <<"C", "D">>

\* a node of key AB on the well-known port 443, no IPv6 address
LineAB == Line(<<<<"h">>, NONE, <<" ", "4", "4", "3", " ">>,
                 KeyAB, <<"m">>, <<"l">>>>)
\* the same key with every other field changed
LineAB2 == Line(<<<<"i">>, <<"6">>, <<"1">>, KeyAB, <<"n">>, <<"k">>>>)
\* a node of key CD on port 1, which is no well-known port
LineCD == Line(<<<<"j">>, <<"6">>, <<"1">>, KeyCD, <<"m">>, <<"l">>>>)
\* a key that is no hexadecimal string
KeyZZ == <<"Z", "Z">>
LineZZ == Line(<<<<"h">>, NONE, <<"4", "4", "3">>, KeyZZ, <<"m">>, <<"l">>>>)
\* lines that are no node lines
LineText == <<"=", "=", " ", "t", "|", "x">>
LinePortX == Line(<<<<"h">>, NONE, <<"x">>, KeyAB, <<"m">>, <<"l">>>>)
LineShort == Line(<<<<"h">>>>)

\* replies to the bootstrap info request: Read failed, or the bytes read
ReplyErr == [err |-> TRUE, data |-> <<>>]
ReplyHi == [err |-> FALSE, data |-> <<240, 0, 0, 0, 7, 104, 105, 0, 0>>]
ReplyTag == [err |-> FALSE, data |-> <<2, 0, 0, 0, 7, 104, 105>>]
ReplyShort == [err |-> FALSE, data |-> <<240, 0, 0, 0>>]

\* results of conn.Read in tryTCPHandshake
ReadErr == [err |-> TRUE, n |-> 0]
ReadShort == [err |-> FALSE, n |-> tcpHandshakeResponsePacketLength - 1]
ReadFull == [err |-> FALSE, n |-> tcpHandshakeResponsePacketLength]

(***************************************************************************)
(* State                                                                   *)
(***************************************************************************)
VARIABLES
    world,      \* what the network and the wiki may do in this run
    now,        \* time.Now().Unix()
    crashed,    \* a goroutine has panicked: the process is gone
    lastScan,   \* package variable lastScan
    nodesList,  \* package variable nodesList: the addresses of its nodes
    heap,       \* the toxNode objects by address
    loop,       \* probeLoop: pc, the local list nodes, results received,
                \* and (history) whether a load failed since the last publish
                \* and the lines of the directory the cycle loaded
    task,       \* the probeNode goroutines by the address of their node
    reader,     \* one HTTP handler serving a status query
    published,  \* history: the (lastScan, nodes) pairs probeLoop published
    arg,        \* the input of a function applied on its own
    result      \* and what the function returned

vars == <<world, now, crashed, lastScan, nodesList, heap, loop, task,
          reader, published, arg, result>>

pure == <<arg, result>>

Range(s) == {s[i] : i \in 1..Len(s)}

\* nodesListToSlice: the node values of the list, in order
nodesListToSlice(list, objs) == [i \in 1..Len(list) |-> objs[list[i]]]

\* Allocate handing out the objects of the published list again
AllocateFromOne(k, used) == [j \in 1..k |-> j]

\* the k lowest addresses that no published node occupies
RECURSIVE Allocate(_, _)
Allocate(k, used) ==
    IF k = 0 THEN <<>>
    ELSE LET a == CHOOSE n \in 1..(Cardinality(used) + 1) : n \notin used
         IN  <<a>> \o Allocate(k - 1, used \cup {a})

NoResponse == [LastScan |-> -1, Nodes |-> <<>>]

\* a probeNode goroutine at its first statement
NewTask(node) ==
    [pc     |-> "A",          \* A, B, C, join, send, done
     conn   |-> 0,            \* variable conn: 0 (nil) or the port dialled
     err    |-> FALSE,        \* variable err: err != nil
     ports  |-> <<>>,         \* variable ports
     i      |-> 0,            \* results received from the port goroutines
     pt     |-> [p \in {} |-> 0],   \* the port goroutines
     tcp    |-> [p \in {} |-> 0],   \* the connection each port goroutine
                              \* dialled: unopened, refused, open, closed
                              \* after a failed read, full: closed after a
                              \* read of 96 bytes
     open   |-> {},           \* connections opened and not closed
     phases |-> <<>>,         \* history: the phases started
     resA   |-> "none",       \* history: how Phase A ended
     resB   |-> "none",       \* history: how Phase B ended
     merged |-> node.LastPing]  \* history: LastPing after the merge

InitState ==
    /\ now = 1
    /\ crashed = FALSE
    /\ lastScan = 0
    /\ nodesList = <<>>
    /\ heap = [a \in {} |-> 0]
    /\ loop = [pc |-> "parse", nodes |-> <<>>, i |-> 0, failed |-> FALSE,
               content |-> <<>>]
    /\ task = [a \in {} |-> 0]
    /\ reader = [pc |-> "idle", nodes |-> <<>>, resp |-> NoResponse]
    /\ published = {[LastScan |-> 0, Nodes |-> <<>>]}
    /\ result = [kind |-> "none"]

(***************************************************************************)
(* probeLoop                                                               *)
(***************************************************************************)
\* ParseNodesError with the error branch falling through to the publication
\* of the (nil) list
ParseNodesErrorPublishes ==
    /\ ~crashed /\ loop.pc = "parse"
    /\ world.fetchMayFail
    /\ nodesList' = <<>>
    /\ heap' = [a \in {} |-> 0]
    /\ lastScan' = now
    /\ loop' = [loop EXCEPT !.pc = "sleep", !.failed = TRUE]
    /\ UNCHANGED <<world, now, crashed, task, reader, published, pure>>

\* parseNodes returns an error (http.Get or ReadAll failed): probeLoop logs
\* it and sleeps
ParseNodesError ==
    /\ ~crashed /\ loop.pc = "parse"
    /\ world.fetchMayFail
    /\ loop' = [loop EXCEPT !.pc = "sleep", !.failed = TRUE]
    /\ UNCHANGED <<world, now, crashed, lastScan, nodesList, heap, task,
                   reader, published, pure>>

\* parseNodes returns the list; probeLoop starts a goroutine per node
ParseNodes ==
    /\ ~crashed /\ loop.pc = "parse"
    /\ \E content \in world.contents :
         LET r == parseLines(content, nodesList, heap)
             addrs == Allocate(Len(r.nodes), Range(nodesList))
         IN  IF r.kind = "panic"
             THEN /\ crashed' = TRUE
                  /\ UNCHANGED <<heap, loop, task>>
             ELSE /\ heap' = [a \in Range(nodesList) \cup Range(addrs) |->
                                IF a \in Range(nodesList) THEN heap[a]
                                ELSE r.nodes[CHOOSE j \in 1..Len(addrs) :
                                                 addrs[j] = a]]
                  /\ loop' = [loop EXCEPT !.pc = "join", !.nodes = addrs,
                                          !.content = content]
                  /\ task' = [a \in Range(addrs) |->
                                NewTask(r.nodes[CHOOSE j \in 1..Len(addrs) :
                                                    addrs[j] = a])]
                  /\ UNCHANGED crashed
    /\ UNCHANGED <<world, now, lastScan, nodesList, reader, published, pure>>

\* _ = <-c: one probeNode goroutine hands in its result
ReceiveNode(a) ==
    /\ ~crashed /\ loop.pc = "join" /\ loop.i < Len(loop.nodes)
    /\ task[a].pc = "send"
    /\ task' = [task EXCEPT ![a].pc = "done"]
    /\ loop' = [loop EXCEPT !.i = @ + 1]
    /\ UNCHANGED <<world, now, crashed, lastScan, nodesList, heap, reader,
                   published, pure>>

\* PublishNodes with the list turned round
PublishNodesReversed ==
    /\ ~crashed /\ loop.pc = "join" /\ loop.i = Len(loop.nodes)
    /\ nodesList' = [j \in 1..Len(loop.nodes) |->
                       loop.nodes[Len(loop.nodes) + 1 - j]]
    /\ heap' = [a \in Range(loop.nodes) |-> heap[a]]
    /\ loop' = [loop EXCEPT !.pc = "stamp", !.failed = FALSE]
    /\ UNCHANGED <<world, now, crashed, lastScan, task, reader, published, pure>>

\* PublishNodes with a join that is content with one result less
PublishNodesEarly ==
    /\ ~crashed /\ loop.pc = "join" /\ loop.i + 1 >= Len(loop.nodes)
    /\ nodesList' = loop.nodes
    /\ heap' = [a \in Range(loop.nodes) |-> heap[a]]
    /\ loop' = [loop EXCEPT !.pc = "stamp", !.failed = FALSE]
    /\ UNCHANGED <<world, now, crashed, lastScan, task, reader, published, pure>>

\* nodesList = nodes
PublishNodes ==
    /\ ~crashed /\ loop.pc = "join" /\ loop.i = Len(loop.nodes)
    /\ nodesList' = loop.nodes
    /\ heap' = [a \in Range(loop.nodes) |-> heap[a]]
    /\ loop' = [loop EXCEPT !.pc = "stamp", !.failed = FALSE]
    /\ UNCHANGED <<world, now, crashed, lastScan, task, reader, published, pure>>

\* time.Now().Unix(): the clock is read; it never runs backwards
TimeNow == now..MaxTime

\* lastScan = time.Now().Unix()
PublishLastScan ==
    /\ ~crashed /\ loop.pc = "stamp"
    /\ \E t \in TimeNow :
         /\ now' = t
         /\ lastScan' = t
         /\ published' = published \cup
                           {[LastScan |-> t,
                             Nodes |-> nodesListToSlice(nodesList, heap)]}
    /\ loop' = [loop EXCEPT !.pc = "sleep"]
    /\ UNCHANGED <<world, crashed, nodesList, heap, task, reader, pure>>

\* time.Sleep(refreshRate * time.Second): the clock moves on
Sleep ==
    /\ ~crashed /\ loop.pc = "sleep"
    /\ now < MaxTime
    /\ now' = now + 1
    /\ loop' = [loop EXCEPT !.pc = "parse", !.nodes = <<>>, !.i = 0,
                            !.content = <<>>]
    /\ task' = [a \in {} |-> 0]
    /\ UNCHANGED <<world, crashed, lastScan, nodesList, heap, reader,
                   published, pure>>

(***************************************************************************)
(* probeNode                                                               *)
(***************************************************************************)
\* PhaseA returning the node when getBootstrapInfo failed
PhaseAReturnsOnError(a) ==
    /\ ~crashed /\ task[a].pc = "A"
    /\ \E dialOk \in world.udpDial,
          reply \in IF heap[a].Ipv4Address \in world.alive
                    THEN world.replies ELSE {ReplyErr} :
         IF ~dialOk
         THEN /\ task' = [task EXCEPT ![a].pc = "send",
                                      ![a].phases = Append(@, "A"),
                                      ![a].resA = "dial"]
              /\ UNCHANGED heap
         ELSE LET r == getBootstrapInfo(heap[a], reply)
              IN  /\ heap' = [heap EXCEPT ![a] = r.node]
                  /\ task' = [task EXCEPT
                                ![a].pc = IF r.err THEN "send" ELSE "B",
                                ![a].phases = Append(@, "A"),
                                ![a].resA = IF r.err THEN "err" ELSE "ok"]
    /\ UNCHANGED <<world, now, crashed, lastScan, nodesList, loop, reader,
                   published, pure>>

\* Phase A: newNodeConn, getBootstrapInfo, conn.Close
PhaseA(a) ==
    /\ ~crashed /\ task[a].pc = "A"
    /\ \E dialOk \in world.udpDial,
          reply \in IF heap[a].Ipv4Address \in world.alive
                    THEN world.replies ELSE {ReplyErr} :
         IF ~dialOk
         THEN /\ task' = [task EXCEPT ![a].pc = "send",
                                      ![a].phases = Append(@, "A"),
                                      ![a].resA = "dial"]
              /\ UNCHANGED heap
         ELSE LET r == getBootstrapInfo(heap[a], reply)
              IN  /\ heap' = [heap EXCEPT ![a] = r.node]
                  /\ task' = [task EXCEPT
                                ![a].pc = "B",
                                ![a].phases = Append(@, "A"),
                                ![a].resA = IF r.err THEN "err" ELSE "ok"]
    /\ UNCHANGED <<world, now, crashed, lastScan, nodesList, loop, reader,
                   published, pure>>

\* PhaseB going on to the ports when getNodes failed
PhaseBNoReturn(a) ==
    /\ ~crashed /\ task[a].pc = "B"
    /\ \E dialOk \in world.udpDial,
          readErr \in IF heap[a].Ipv4Address \in world.alive
                      THEN BOOLEAN ELSE {TRUE} :
         task' = [task EXCEPT
                    ![a].phases = Append(@, "B"),
                    ![a].pc = IF dialOk THEN "C" ELSE "send",
                    ![a].resB = IF ~dialOk THEN "dial"
                                ELSE IF getNodes(heap[a], readErr) THEN "err"
                                ELSE "ok"]
    /\ UNCHANGED <<world, now, crashed, lastScan, nodesList, heap, loop,
                   reader, published, pure>>

\* Phase B: newNodeConn, getNodes, conn.Close when getNodes succeeded
PhaseB(a) ==
    /\ ~crashed /\ task[a].pc = "B"
    /\ \E dialOk \in world.udpDial,
          readErr \in IF heap[a].Ipv4Address \in world.alive
                      THEN BOOLEAN ELSE {TRUE} :
         task' = [task EXCEPT
                    ![a].phases = Append(@, "B"),
                    ![a].pc = IF dialOk /\ ~getNodes(heap[a], readErr)
                              THEN "C" ELSE "send",
                    ![a].resB = IF ~dialOk THEN "dial"
                                ELSE IF getNodes(heap[a], readErr) THEN "err"
                                ELSE "ok",
                    ![a].open = IF dialOk /\ getNodes(heap[a], readErr)
                                THEN @ \cup {"B"} ELSE @]
    /\ UNCHANGED <<world, now, crashed, lastScan, nodesList, heap, loop,
                   reader, published, pure>>

\* a port goroutine before its first statement
NewPortTask ==
    [pc   |-> "dial",   \* dial, werr, check, send, done
     perr |-> FALSE,    \* the error newNodeConn returned to it
     res  |-> "none"]   \* the tcpHandshakeResult it sends: ok or err

\* Phase C starts: the candidate ports and one goroutine for each
StartPorts(a) ==
    /\ ~crashed /\ task[a].pc = "C"
    /\ LET ports == CandidatePorts(heap[a])
       IN  task' = [task EXCEPT
                      ![a].pc = "join",
                      ![a].phases = Append(@, "C"),
                      ![a].ports = ports,
                      ![a].pt = [k \in 1..Len(ports) |-> NewPortTask],
                      ![a].tcp = [k \in 1..Len(ports) |-> "unopened"]]
    /\ UNCHANGED <<world, now, crashed, lastScan, nodesList, heap, loop,
                   reader, published, pure>>

\* conn, err = newNodeConn(node, p, "tcp"): the dial, and the store of its
\* first result into the variable conn that all port goroutines share
PortDial(a, k) ==
    /\ ~crashed /\ k \in DOMAIN task[a].pt /\ task[a].pt[k].pc = "dial"
    /\ \E ok \in IF task[a].ports[k] \in world.accepting
                 THEN world.tcpDial ELSE {FALSE} :
         task' = [task EXCEPT
                    ![a].pt[k].pc = "werr",
                    ![a].pt[k].perr = ~ok,
                    ![a].tcp[k] = IF ok THEN "open" ELSE "refused",
                    ![a].open = IF ok THEN @ \cup {k} ELSE @,
                    ![a].conn = IF ok THEN k ELSE 0]
    /\ UNCHANGED <<world, now, crashed, lastScan, nodesList, heap, loop,
                   reader, published, pure>>

\* the store of the second result into the shared variable err
PortWriteErr(a, k) ==
    /\ ~crashed /\ k \in DOMAIN task[a].pt /\ task[a].pt[k].pc = "werr"
    /\ task' = [task EXCEPT ![a].pt[k].pc = "check",
                            ![a].pt[k].perr = FALSE,
                            ![a].err = task[a].pt[k].perr]
    /\ UNCHANGED <<world, now, crashed, lastScan, nodesList, heap, loop,
                   reader, published, pure>>

\* tryTCPHandshake returns an error for what conn.Read returned
tryTCPHandshake(node, read) ==
    ~HexDecodeOk(node.PublicKey) \/ ~HandshakeOk(read)

\* if err != nil { result with err } else { tryTCPHandshake(node, conn, p) }:
\* err and conn are the shared variables, whoever wrote them last.  A nil
\* conn with a nil err panics in conn.Write.  The read on a connection that
\* another goroutine has closed fails; tryTCPHandshake closes the connection
\* it was given.  tcp[c] is "full" once a read on c has returned 96 bytes.
PortCheck(a, k) ==
    /\ ~crashed /\ k \in DOMAIN task[a].pt /\ task[a].pt[k].pc = "check"
    /\ LET t == task[a]
           c == t.conn
       IN  IF t.err
           THEN /\ task' = [task EXCEPT ![a].pt[k].pc = "send",
                                        ![a].pt[k].res = "err"]
                /\ UNCHANGED crashed
           ELSE IF c = 0
           THEN /\ crashed' = TRUE
                /\ UNCHANGED task
           ELSE /\ \E read \in IF t.tcp[c] \in {"closed", "full"} THEN {ReadErr}
                               ELSE world.reads :
                     task' = [task EXCEPT
                                ![a].pt[k].pc = "send",
                                ![a].pt[k].res =
                                    IF tryTCPHandshake(heap[a], read)
                                    THEN "err" ELSE "ok",
                                ![a].tcp[c] =
                                    IF ~HexDecodeOk(heap[a].PublicKey) THEN @
                                    ELSE IF HandshakeOk(read) \/ @ = "full"
                                    THEN "full"
                                    ELSE "closed",
                                ![a].open =
                                    IF HexDecodeOk(heap[a].PublicKey)
                                    THEN @ \ {c} ELSE @]
                /\ UNCHANGED crashed
    /\ UNCHANGED <<world, now, lastScan, nodesList, heap, loop, reader,
                   published, pure>>

\* ReceivePort storing the port of the result in the place of the others
ReceivePortReplaces(a, k) ==
    /\ ~crashed /\ task[a].pc = "join" /\ task[a].i < Len(task[a].ports)
    /\ k \in DOMAIN task[a].pt /\ task[a].pt[k].pc = "send"
    /\ task' = [task EXCEPT ![a].pt[k].pc = "done",
                            ![a].pt[k].res = "none",
                            ![a].i = @ + 1]
    /\ heap' = [heap EXCEPT
                  ![a].TCPPorts = IF task[a].pt[k].res = "ok"
                                  THEN <<task[a].ports[k]>> ELSE @]
    /\ UNCHANGED <<world, now, crashed, lastScan, nodesList, loop, reader,
                   published, pure>>

\* result := <-c in the join loop: a result without error adds its port
ReceivePort(a, k) ==
    /\ ~crashed /\ task[a].pc = "join" /\ task[a].i < Len(task[a].ports)
    /\ k \in DOMAIN task[a].pt /\ task[a].pt[k].pc = "send"
    /\ task' = [task EXCEPT ![a].pt[k].pc = "done",
                            ![a].pt[k].res = "none",
                            ![a].i = @ + 1]
    /\ heap' = [heap EXCEPT
                  ![a].TCPPorts = IF task[a].pt[k].res = "ok"
                                  THEN Append(@, task[a].ports[k]) ELSE @]
    /\ UNCHANGED <<world, now, crashed, lastScan, nodesList, loop, reader,
                   published, pure>>

\* FinishNode with a join that ends on the first result
FinishNodeEarly(a) ==
    /\ ~crashed /\ task[a].pc = "join" /\ task[a].i >= 1
    /\ \E t \in TimeNow :
         /\ now' = t
         /\ heap' = [heap EXCEPT ![a].LastPing = t, ![a].Status = TRUE]
    /\ task' = [task EXCEPT ![a].pc = "send"]
    /\ UNCHANGED <<world, crashed, lastScan, nodesList, loop, reader,
                   published, pure>>

\* after the join: node.LastPing = time.Now().Unix(); node.Status = true
FinishNode(a) ==
    /\ ~crashed /\ task[a].pc = "join" /\ task[a].i = Len(task[a].ports)
    /\ \E t \in TimeNow :
         /\ now' = t
         /\ heap' = [heap EXCEPT ![a].LastPing = t, ![a].Status = TRUE]
    /\ task' = [task EXCEPT ![a].pc = "send"]
    /\ UNCHANGED <<world, crashed, lastScan, nodesList, loop, reader,
                   published, pure>>

(***************************************************************************)
(* handleJSONRequest, renderMainPage                                       *)
(***************************************************************************)
\* nodes := nodesListToSlice(nodesList)
ReadNodes ==
    /\ ~crashed /\ reader.pc = "idle"
    /\ reader' = [pc |-> "stamp",
                  nodes |-> nodesListToSlice(nodesList, heap),
                  resp |-> NoResponse]
    /\ UNCHANGED <<world, now, crashed, lastScan, nodesList, heap, loop,
                   task, published, pure>>

\* response := toxStatus{lastScan, ..., nodes}
ReadLastScan ==
    /\ ~crashed /\ reader.pc = "stamp"
    /\ reader' = [pc |-> "write",
                  nodes |-> <<>>,
                  resp |-> [LastScan |-> lastScan, Nodes |-> reader.nodes]]
    /\ UNCHANGED <<world, now, crashed, lastScan, nodesList, heap, loop,
                   task, published, pure>>

\* w.Write(bytes): the handler returns
Respond ==
    /\ ~crashed /\ reader.pc = "write"
    /\ reader' = [pc |-> "idle", nodes |-> <<>>, resp |-> NoResponse]
    /\ UNCHANGED <<world, now, crashed, lastScan, nodesList, heap, loop,
                   task, published, pure>>

(***************************************************************************)
(* Specifications                                                          *)
(***************************************************************************)
\* applied on their own: getBootstrapInfo to a fresh node and a reply,
\* the loop of parseNodes to a directory text and an empty published list
ApplyBootstrapInfo ==
    /\ result.kind = "none" /\ arg.kind = "reply"
    /\ LET r == getBootstrapInfo(parseNode(LineAB).node, arg.reply)
       IN  result' = [kind |-> "info", err |-> r.err, node |-> r.node]
    /\ UNCHANGED <<world, now, crashed, lastScan, nodesList, heap, loop, task,
                   reader, published, arg>>

ApplyParseLines ==
    /\ result.kind = "none" /\ arg.kind = "text"
    /\ LET r == parseLines(arg.lines, <<>>, <<>>)
       IN  result' = [kind |-> "parsed", panic |-> r.kind = "panic",
                      nodes |-> r.nodes]
    /\ UNCHANGED <<world, now, crashed, lastScan, nodesList, heap, loop, task,
                   reader, published, arg>>

(***************************************************************************)
(* Specifications                                                          *)
(***************************************************************************)
\* one scan of probeLoop with its probeNode goroutines
NextProbe ==
    \/ ParseNodesError
    \/ ParseNodes
    \/ \E a \in DOMAIN task : ReceiveNode(a)
    \/ PublishNodes
    \/ PublishLastScan
    \/ \E a \in DOMAIN task : PhaseA(a)
    \/ \E a \in DOMAIN task : PhaseB(a)
    \/ \E a \in DOMAIN task : StartPorts(a)
    \/ \E a \in DOMAIN task : \E k \in DOMAIN task[a].pt : PortDial(a, k)
    \/ \E a \in DOMAIN task : \E k \in DOMAIN task[a].pt : PortWriteErr(a, k)
    \/ \E a \in DOMAIN task : \E k \in DOMAIN task[a].pt : PortCheck(a, k)
    \/ \E a \in DOMAIN task : \E k \in DOMAIN task[a].pt : ReceivePort(a, k)
    \/ \E a \in DOMAIN task : FinishNode(a)

\* probeLoop for ever
NextScan ==
    \/ NextProbe
    \/ Sleep

\* probeLoop and the HTTP handlers
Next ==
    \/ NextScan
    \/ ReadNodes
    \/ ReadLastScan
    \/ Respond

\* The service with its readers.  The wiki lists one node, on the
\* well-known port 443, after a line of text or after a line of two fields;
\* no port of the host accepts TCP connections.
SystemWorld ==
    [contents     |-> {<<LineText, LineAB>>, <<LineShort, LineAB>>},
     fetchMayFail |-> TRUE,
     udpDial      |-> BOOLEAN,
     alive        |-> {<<"h">>},
     replies      |-> {ReplyErr, ReplyHi},
     accepting    |-> {},
     tcpDial      |-> BOOLEAN,
     reads        |-> {ReadErr, ReadShort, ReadFull}]

NoArg == arg = [kind |-> "none"]

Init == world = SystemWorld /\ InitState /\ NoArg

Spec == Init /\ [][Next]_vars

\* The scans without the readers.  The wiki lists the same key on two lines
\* with different hosts, or one node and a line without a numeric port; only
\* the host h answers the queries, and no port accepts TCP connections.
ScanWorld ==
    [contents     |-> {<<LineText, LineAB, LineAB2>>, <<LineCD, LinePortX>>},
     fetchMayFail |-> TRUE,
     udpDial      |-> BOOLEAN,
     alive        |-> {<<"h">>},
     replies      |-> {ReplyErr, ReplyHi, ReplyTag, ReplyShort},
     accepting    |-> {},
     tcpDial      |-> BOOLEAN,
     reads        |-> {ReadErr, ReadShort, ReadFull}]

InitScan == world = ScanWorld /\ InitState /\ NoArg

SpecScan == InitScan /\ [][NextScan]_vars

\* One scan of one node, on port 443 or on port 1, whose every candidate
\* port may refuse the connection, fail the read, or answer short or in full.
PortsWorld ==
    [contents     |-> {<<LineAB>>, <<LineCD>>},
     fetchMayFail |-> TRUE,
     udpDial      |-> BOOLEAN,
     alive        |-> {<<"h">>, <<"j">>},
     replies      |-> {ReplyHi},
     accepting    |-> {443, 3389, 33445, 1},
     tcpDial      |-> BOOLEAN,
     reads        |-> {ReadErr, ReadShort, ReadFull}]

InitPorts == world = PortsWorld /\ InitState /\ NoArg

SpecPorts == InitPorts /\ [][NextProbe]_vars

\* The scans of directories whose keys differ in kind: one key (the
\* hexadecimal form of one byte) on two lines, the host of the first line
\* offline and the host h of the second online; a key that is no hexadecimal
\* string, on the host h.  The channels open, h answers the info request,
\* and no port accepts TCP connections.
KeysWorld ==
    [contents     |-> {<<LineAB2, LineAB>>, <<LineZZ>>},
     fetchMayFail |-> TRUE,
     udpDial      |-> {TRUE},
     alive        |-> {<<"h">>},
     replies      |-> {ReplyHi},
     accepting    |-> {},
     tcpDial      |-> BOOLEAN,
     reads        |-> {ReadErr, ReadShort, ReadFull}]

InitKeys == world = KeysWorld /\ InitState /\ NoArg

SpecKeys == InitKeys /\ [][NextScan]_vars

\* getBootstrapInfo on its own: every reply of at most MaxReplyLen bytes
\* among 0, 7, 'h' and 240, the reply [240 0 0 0 7 'h' 'i' 0 0], and a Read
\* that returned an error
InfoBytes == {0, 7, 104, 240}

InfoReplies ==
    {[err |-> FALSE, data |-> d] :
        d \in UNION {[1..n -> InfoBytes] : n \in 0..MaxReplyLen}}
    \cup {ReplyHi, ReplyErr, [err |-> TRUE, data |-> ReplyHi.data]}

InitInfo ==
    /\ world = SystemWorld /\ InitState
    /\ arg \in {[kind |-> "reply", reply |-> r] : r \in InfoReplies}

SpecInfo == InitInfo /\ [][ApplyBootstrapInfo]_vars

\* parseNodes on its own: texts of at most MaxLines lines; a line has up to
\* MaxFields fields between bars, with a port field that is a number, a
\* padded number, a signed number, a word or empty, or it is plain text
PortFields == {<<"1">>, <<" ", "4", "4", "3", " ">>, <<"-", "1">>, <<"x">>,
               <<>>}

FieldsOf(n, port) == [i \in 1..n |-> IF i = 3 THEN port ELSE <<"A", "B">>]

ParseLineSet ==
    {Line(FieldsOf(n, port)) : n \in 0..MaxFields, port \in PortFields}
    \cup {LineText, <<>>, <<"a">> \o LineAB}

ParseTexts == UNION {[1..n -> ParseLineSet] : n \in 0..MaxLines}

InitParse ==
    /\ world = SystemWorld /\ InitState
    /\ arg \in {[kind |-> "text", lines |-> t] : t \in ParseTexts}

SpecParse == InitParse /\ [][ApplyParseLines]_vars

(***************************************************************************)
(* Properties                                                              *)
(***************************************************************************)
\* what a status query is answered from
Snapshot ==
    [LastScan |-> lastScan, Nodes |-> nodesListToSlice(nodesList, heap)]

\* C1: the (lastScan, nodes) pair a handler puts into its response is a pair
\* probeLoop published together: the initial one (0, empty list) or the list
\* and the timestamp of one and the same scan.
C1_ReaderSeesPublishedPair ==
    reader.pc = "write" => reader.resp \in published

\* C2: a step in which parseNodes returns an error starts no probe task, and
\* as long as a load has failed since the last publication no step changes
\* the published list, its nodes or the published timestamp.
C2_FailedLoadKeepsSnapshot ==
    [][/\ (loop.pc = "parse" /\ loop'.pc = "sleep") =>
            (DOMAIN task' = {} /\ Snapshot' = Snapshot
             /\ nodesList' = nodesList /\ heap' = heap)
       /\ loop'.failed => Snapshot' = Snapshot]_vars

\* a load has failed after a scan published a node
C2_Witness ==
    /\ loop.pc = "sleep" /\ loop.failed
    /\ lastScan > 0 /\ nodesList # <<>>

\* the positions of the published list whose node has the key of node a
OldWithKey(a) ==
    {i \in 1..Len(nodesList) :
        heap[nodesList[i]].PublicKey = heap[a].PublicKey}

\* C3 as stated: while the nodes of a new cycle are probed (the published
\* list is still the previous one), every new record has, after the merge,
\* the LastPing and LastPingString of every published record with its public
\* key, and 0 and "Never" when no published record has its key.
C3_MergeTakesPublishedPing ==
    loop.pc = "join" =>
        \A a \in DOMAIN task :
            /\ \A i \in OldWithKey(a) :
                   /\ task[a].merged = heap[nodesList[i]].LastPing
                   /\ heap[a].LastPingString =
                          heap[nodesList[i]].LastPingString
            /\ OldWithKey(a) = {} =>
                   (task[a].merged = 0 /\ heap[a].LastPingString = Never)

\* C3 amended: the values are those of the first published record with the
\* key, in the order of the published list.
C3_MergeTakesFirstPublishedPing ==
    loop.pc = "join" =>
        \A a \in DOMAIN task :
            /\ \A i \in OldWithKey(a) :
                   (\A j \in OldWithKey(a) : i <= j) =>
                       /\ task[a].merged = heap[nodesList[i]].LastPing
                       /\ heap[a].LastPingString =
                              heap[nodesList[i]].LastPingString
            /\ OldWithKey(a) = {} =>
                   (task[a].merged = 0 /\ heap[a].LastPingString = Never)

\* a load failed after the snapshot was published, and a new record takes a
\* LastPing other than 0 from a published record of another address
C3_Witness ==
    /\ loop.pc = "join" /\ loop.failed
    /\ \E a \in DOMAIN task : \E i \in OldWithKey(a) :
           /\ task[a].merged > 0
           /\ task[a].merged = heap[nodesList[i]].LastPing
           /\ heap[a].Ipv4Address # heap[nodesList[i]].Ipv4Address
           /\ heap[a].Maintainer # heap[nodesList[i]].Maintainer

\* C4: the phases of a node start in the order A, B, C, Phase C only after
\* Phase B succeeded; a node whose getNodes failed has no candidate port and
\* no TCP connection dialled, and it ends the cycle, and is published, with
\* Status false, no TCPPorts and the LastPing of the merge.
C4_PhaseBGatesPhaseC ==
    \A a \in DOMAIN task :
        LET t == task[a]
        IN  /\ \E n \in 0..3 : t.phases = SubSeq(<<"A", "B", "C">>, 1, n)
            /\ (Len(t.phases) = 3 \/ t.pc \in {"C", "join"}) => t.resB = "ok"
            /\ t.resB = "err" =>
                   /\ t.pc \in {"send", "done"}
                   /\ t.ports = <<>> /\ DOMAIN t.pt = {} /\ DOMAIN t.tcp = {}
                   /\ heap[a].Status = FALSE
                   /\ heap[a].TCPPorts = <<>>
                   /\ heap[a].LastPing = t.merged

\* a published node whose Phase B failed and that keeps an earlier LastPing
C4_Witness ==
    \E a \in DOMAIN task :
        /\ task[a].resB = "err" /\ task[a].pc = "done"
        /\ loop.pc = "sleep" /\ a \in Range(nodesList)
        /\ task[a].merged > 0 /\ heap[a].LastPing = task[a].merged

\* C5: when a node has finished Phase C, each candidate port is in TCPPorts
\* if and only if the connection dialled to that port was opened and the
\* read on it returned 96 bytes.
C5_PortAddedIffOwnHandshake ==
    \A a \in DOMAIN task :
        (task[a].pc \in {"send", "done"} /\ task[a].resB = "ok") =>
            \A k \in DOMAIN task[a].pt :
                contains(heap[a].TCPPorts, task[a].ports[k])
                    <=> task[a].tcp[k] = "full"

\* C6: a node has Status true only if its Phase B succeeded in this cycle (a
\* new record starts with Status false and keeps it until the join is over);
\* the step that ends the join, taken when every port goroutine has handed in
\* its result, sets Status and stores the time read then into LastPing; after
\* it the node has Status true, whatever its TCPPorts.
C6_StatusFromPhaseC ==
    /\ [](\A a \in DOMAIN task :
            /\ task[a].pc \in {"A", "B", "C", "join"} => ~heap[a].Status
            /\ heap[a].Status => task[a].resB = "ok"
            /\ (task[a].pc \in {"send", "done"} /\ Len(task[a].phases) = 3)
                   => heap[a].Status)
    /\ [][\A a \in DOMAIN task \cap DOMAIN task' :
            (task[a].pc = "join" /\ task'[a].pc = "send") =>
                /\ task[a].i = Len(task[a].ports)
                /\ \A k \in DOMAIN task[a].pt : task[a].pt[k].pc = "done"
                /\ heap'[a].Status
                /\ heap'[a].LastPing = now'
                /\ now' >= now]_vars

\* a published node that went through Phase C without any open port
C6_Witness ==
    \E a \in DOMAIN task :
        /\ task[a].pc = "done" /\ Len(task[a].phases) = 3
        /\ heap[a].TCPPorts = <<>> /\ heap[a].Status
        /\ a \in Range(nodesList) /\ loop.pc = "sleep"

\* the bytes of the reply after the five header bytes
Payload == SubSeq(arg.reply.data, 6, Len(arg.reply.data))

\* getBootstrapInfo was applied to a reply of at least five bytes with the tag
InfoAccepted ==
    /\ result.kind = "info"
    /\ ~arg.reply.err
    /\ Len(arg.reply.data) >= 5
    /\ arg.reply.data[1] = 240

RECURSIVE DecimalDivMod(_, _)
\* quotient and remainder of the number written in decimal by s, on division
\* by m (long division, digit by digit)
DecimalDivMod(s, m) ==
    IF s = <<>> THEN [q |-> 0, r |-> 0]
    ELSE LET front == DecimalDivMod(SubSeq(s, 1, Len(s) - 1), m)
             acc == front.r * 10 + DigitVal(s[Len(s)])
         IN  [q |-> front.q * 10 + acc \div m, r |-> acc % m]

\* Version is the decimal rendering of bytes 1..4 read as a big-endian number
VersionIsDecimal ==
    LET v == result.node.Version
        d == arg.reply.data
    IN  /\ v # <<>>
        /\ \A i \in 1..Len(v) : IsDigit(v[i])
        /\ Len(v) > 1 => v[1] # "0"
        /\ DecimalDivMod(v, 65536) =
               [q |-> d[2] * 256 + d[3], r |-> d[4] * 256 + d[5]]

\* the reply of the example, [240, 0, 0, 0, 7, 'h', 'i', 0, 0], gives
\* Version "7" and MOTD "hi"
ExampleDecoded ==
    (result.kind = "info" /\ arg.reply = ReplyHi) =>
        /\ result.node.Version = <<"7">>
        /\ result.node.MOTD = <<104, 105>>

\* C7 as stated: for a reply of five or more bytes that starts with 240,
\* getBootstrapInfo succeeds, Version is the decimal rendering of bytes 1..4
\* as a big-endian 32-bit number, and MOTD is the payload without its
\* trailing zero bytes (zero bytes anywhere else are kept).
C7_MOTDWithoutTrailingZeros ==
    /\ InfoAccepted =>
        /\ ~result.err
        /\ VersionIsDecimal
        /\ \E n \in 0..Len(Payload) :
               /\ result.node.MOTD = SubSeq(Payload, 1, n)
               /\ n > 0 => Payload[n] # 0
               /\ \A j \in (n + 1)..Len(Payload) : Payload[j] = 0
    /\ ExampleDecoded

\* C7 amended: MOTD is the payload without its leading and its trailing zero
\* bytes; zero bytes between two other bytes are kept.
C7_MOTDWithoutOuterZeros ==
    /\ InfoAccepted =>
        /\ ~result.err
        /\ VersionIsDecimal
        /\ \E m \in 1..(Len(Payload) + 1), n \in 0..Len(Payload) :
               /\ result.node.MOTD = SubSeq(Payload, m, n)
               /\ \A j \in 1..(m - 1) : Payload[j] = 0
               /\ \A j \in (n + 1)..Len(Payload) : Payload[j] = 0
               /\ m <= n => (Payload[m] # 0 /\ Payload[n] # 0)
    /\ ExampleDecoded

\* a payload with a zero byte in front of the text
C7_Witness ==
    /\ InfoAccepted
    /\ arg.reply.data = <<240, 0, 0, 0, 7, 0, 104>>
    /\ result.node.MOTD = <<104>>
    /\ result.node.Version = <<"7">>

\* the lines of the text that have eight |-separated fields after the removal
\* of the spaces, a decimal port and a "|" in front
Qualifying(lines) ==
    SelectSeq(lines, LAMBDA l : /\ HasPrefixBar(stripSpaces(l))
                                /\ Len(SplitBar(stripSpaces(l))) = 8
                                /\ AtoiOk(SplitBar(stripSpaces(l))[4]))

\* C8: parsing a directory text never aborts: every line that is not a
\* well-formed row is skipped, and the result has one record for each
\* well-formed row, in the order of the text.
C8_BadLinesSkipped ==
    result.kind = "parsed" =>
        /\ ~result.panic
        /\ Len(result.nodes) = Len(Qualifying(arg.lines))
        /\ \A i \in 1..Len(result.nodes) :
               result.nodes[i] =
                   NewNode(SplitBar(stripSpaces(Qualifying(arg.lines)[i])),
                           Atoi(TrimSpace(SplitBar(stripSpaces(Qualifying(arg.lines)[i]))[4])))

PhaseBDecides(a) ==
    /\ heap[a].Version = <<>> /\ heap[a].MOTD = <<>>
    /\ task[a].pc # "A"
    /\ task[a].pc \in {"send", "done"} =>
           /\ Len(task[a].phases) >= 2 /\ task[a].phases[2] = "B"
           /\ heap[a].Status <=> task[a].resB = "ok"

\* C10 as stated: when Phase A of a node fails, the channel that cannot be
\* opened included, its Version and MOTD are empty, Phase B is attempted and
\* Status is true exactly when Phase B succeeded.
C10_PhaseAFailureIgnored ==
    \A a \in DOMAIN task :
        task[a].resA \in {"dial", "err"} => PhaseBDecides(a)

\* C10 amended: that holds for a failure after the channel was opened (no
\* reply, a short reply, a reply with another tag); when the channel cannot
\* be opened the node is handed back at once, with Version and MOTD empty,
\* Status false and no other phase.
C10_PhaseAReplyFailureIgnored ==
    \A a \in DOMAIN task :
        /\ task[a].resA = "err" => PhaseBDecides(a)
        /\ task[a].resA = "dial" =>
               /\ task[a].pc \in {"send", "done"}
               /\ task[a].phases = <<"A">>
               /\ heap[a].Version = <<>> /\ heap[a].MOTD = <<>>
               /\ ~heap[a].Status

\* a published node that is online without version information
C10_Witness ==
    \E a \in DOMAIN task :
        /\ task[a].resA = "err" /\ task[a].pc = "done"
        /\ task[a].resB = "ok" /\ heap[a].Status
        /\ heap[a].Version = <<>>
        /\ a \in Range(nodesList)

\* the probe task of node a and every port task of it have ended
TaskOver(a) ==
    /\ task[a].pc = "done"
    /\ \A k \in DOMAIN task[a].pt : task[a].pt[k].pc = "done"

\* C11: in a cycle whose load gave N records there is one probe task for each
\* record (the records are N different objects), the count of results
\* received is the number of probe tasks that have handed in their node, and
\* the step that publishes the list is taken with N results received, when
\* every probe task and every port task of the cycle has ended; none runs
\* while the list is published and stamped.
C11_PublishAfterAllResults ==
    /\ [](loop.pc \in {"join", "stamp", "sleep"} =>
            /\ DOMAIN task = Range(loop.nodes)
            /\ Cardinality(Range(loop.nodes)) = Len(loop.nodes)
            /\ loop.i = Cardinality({a \in DOMAIN task : task[a].pc = "done"})
            /\ (loop.pc = "stamp" \/ (loop.pc = "sleep" /\ loop.nodes # <<>>))
                   => \A a \in DOMAIN task : TaskOver(a))
    /\ [][(loop.pc = "join" /\ loop'.pc = "stamp") =>
            /\ loop.i = Len(loop.nodes)
            /\ nodesList' = loop.nodes
            /\ \A a \in Range(loop.nodes) : TaskOver(a)]_vars

\* a list of two records is published, one of them after its port tasks
C11_Witness ==
    /\ loop.pc = "stamp" /\ Len(nodesList) = 2 /\ loop.i = 2
    /\ \E a \in DOMAIN task : Len(task[a].ports) = 3 /\ TaskOver(a)

C13_PublishedRecordsFrozen ==
    /\ [](/\ Range(nodesList) \subseteq DOMAIN heap
          /\ loop.pc = "join" => Range(loop.nodes) \cap Range(nodesList) = {})
    /\ [][/\ \A a \in Range(nodesList) \cap Range(nodesList') :
                 heap'[a] = heap[a]
          /\ \A a \in DOMAIN heap \cap DOMAIN heap' :
                 heap'[a] # heap[a] =>
                     /\ loop.pc = "join" /\ loop'.pc = "join"
                     /\ a \in Range(loop.nodes)
                     /\ a \notin Range(nodesList)
                     /\ task[a].pc \in {"A", "B", "C", "join"}
          /\ DOMAIN heap' \ DOMAIN heap # {} => loop.pc = "parse"]_vars

\* a probe task has set the status of its record while an earlier list, from
\* which the record took its LastPing, is the published one
C13_Witness ==
    /\ loop.pc = "join" /\ nodesList # <<>>
    /\ \E a \in DOMAIN task :
           /\ heap[a].Status /\ task[a].merged > 0
           /\ \E i \in OldWithKey(a) :
                  /\ heap[nodesList[i]].LastPing = task[a].merged
                  /\ heap[nodesList[i]].LastPing < heap[a].LastPing

\* the key is the hexadecimal form of 32 bytes
DecodesTo32Bytes(key) == HexDecodeOk(key) /\ Len(key) = 64

\* C14: a node whose PublicKey does not decode to exactly 32 bytes never has
\* a successful Phase B: no TCP connection is dialled for it, its Status is
\* false, and it is in the list that the cycle publishes.
C14_BadKeyFailsPhaseB ==
    \A a \in DOMAIN task :
        ~DecodesTo32Bytes(heap[a].PublicKey) =>
            /\ task[a].resB # "ok"
            /\ task[a].ports = <<>> /\ DOMAIN task[a].tcp = {}
            /\ ~heap[a].Status
            /\ loop.pc \in {"stamp", "sleep"} => a \in Range(nodesList)

\* the fields of the directory line that the record n has
RecordOfLine(n, l) ==
    LET parts == SplitBar(stripSpaces(l))
    IN  /\ n.Ipv4Address = parts[2]
        /\ n.Ipv6Address = IF parts[3] = NONE THEN <<"-">> ELSE parts[3]
        /\ n.Port = Atoi(parts[4])
        /\ n.PublicKey = parts[5]
        /\ n.Maintainer = parts[6]
        /\ n.Location = parts[7]

\* C15: the list that a cycle has published has one record (an object of its
\* own) for each qualifying line of the directory the cycle loaded, the i-th
\* record with the fields of the i-th qualifying line.
C15_SnapshotInDirectoryOrder ==
    (loop.pc = "stamp" \/ (loop.pc = "sleep" /\ ~loop.failed)) =>
        /\ Len(nodesList) = Len(Qualifying(loop.content))
        /\ Cardinality(Range(nodesList)) = Len(nodesList)
        /\ \A i \in 1..Len(nodesList) :
               RecordOfLine(heap[nodesList[i]], Qualifying(loop.content)[i])

\* a directory of three lines, two of them qualifying: the first node is
\* published online and the second one, all of whose phases failed, after it
C15_Witness ==
    /\ loop.pc = "sleep" /\ ~loop.failed
    /\ Len(loop.content) = 3 /\ Len(nodesList) = 2
    /\ heap[nodesList[1]].Status
    /\ ~heap[nodesList[2]].Status
    /\ task[nodesList[2]].resA = "err" /\ task[nodesList[2]].resB = "err"
    /\ heap[nodesList[1]].Ipv4Address # heap[nodesList[2]].Ipv4Address

\* C16: a cycle never comes to a halt before its end: as long as probeLoop
\* has not reached its sleep, some task of the cycle can take a step (with
\* every dial and every read returning, and fair scheduling, the cycle then
\* reaches the publication or, after a failed load, the sleep).
C16_CycleNeverStuck ==
    loop.pc # "sleep" => ENABLED NextProbe

\* C17: every record of the published list has the rendering "Never" if and
\* only if its LastPing is 0.
C17_RenderingAgreesWithLastPing ==
    \A i \in 1..Len(nodesList) :
        heap[nodesList[i]].LastPingString = Never
            <=> heap[nodesList[i]].LastPing = 0

\* C18: when probeNode has returned, none of the channels and connections it
\* opened for the node is still open.
C18_ConnectionsClosedOnReturn ==
    \A a \in DOMAIN task :
        task[a].pc \in {"send", "done"} => task[a].open = {}

\* C19: when every node of a cycle has been received, so that its list is
\* the next one published, each of its records has a LastPing that is not
\* less than the LastPing of any record with its public key in the list
\* published before.
C19_LastPingNeverDecreases ==
    (loop.pc = "join" /\ loop.i = Len(loop.nodes)) =>
        \A a \in Range(loop.nodes) : \A i \in OldWithKey(a) :
            heap[a].LastPing >= heap[nodesList[i]].LastPing

\* C20: in every state the TCPPorts of a node has no port twice and only
\* ports among 443, 3389, 33445 and the primary port of the node (its
\* candidate ports, once Phase C has started), and it is empty for a
\* published node whose Status is false; a step that changes it is a step of
\* the join in probeNode, which receives one result and appends one port,
\* leaving the ports that are there in their places.
C20_TCPPortsOfCandidates ==
    /\ [](/\ \A a \in DOMAIN heap :
                /\ Cardinality(Range(heap[a].TCPPorts))
                       = Len(heap[a].TCPPorts)
                /\ Range(heap[a].TCPPorts)
                       \subseteq {443, 3389, 33445} \cup {heap[a].Port}
          /\ \A a \in DOMAIN task :
                /\ Range(heap[a].TCPPorts) \subseteq Range(task[a].ports)
                /\ Len(heap[a].TCPPorts) <= task[a].i
          /\ \A i \in 1..Len(nodesList) :
                ~heap[nodesList[i]].Status
                    => heap[nodesList[i]].TCPPorts = <<>>)
    /\ [][\A a \in DOMAIN task \cap DOMAIN task' :
            heap'[a].TCPPorts # heap[a].TCPPorts =>
                /\ task[a].pc = "join" /\ task'[a].pc = "join"
                /\ task'[a].i = task[a].i + 1
                /\ Len(heap'[a].TCPPorts) = Len(heap[a].TCPPorts) + 1
                /\ SubSeq(heap'[a].TCPPorts, 1, Len(heap[a].TCPPorts))
                       = heap[a].TCPPorts]_vars

\* a published node all four candidate ports of which are in TCPPorts
C20_Witness ==
    \E a \in DOMAIN task :
        /\ task[a].pc = "done" /\ a \in Range(nodesList)
        /\ Len(heap[a].TCPPorts) = 4 /\ heap[a].Port = 1
====
